---- MODULE Spec2Model ----
(***************************************************************************)
(* A model of CoTGenerator (src/core/cot_generator.py): the problem        *)
(* classifier _detect_problem_type, the step segmenter parse_steps with    *)
(* its helpers _create_step_data, _fallback_parsing and _classify_step,    *)
(* and generate_cot; of the Generate request and the sidebar handlers of   *)
(* the app (src/app.py); and of the interface of the ModelManager          *)
(* (src/core/model.py).                                                    *)
(*                                                                         *)
(* Python strings are TLA+ strings; a character is a string of length 1.   *)
(* The model's alphabet is ASCII.                                          *)
(***************************************************************************)
EXTENDS Integers, Sequences, FiniteSets, TLC

VARIABLES
    pc,            \* position of the caller: "idle", "detected", "scan", "check", "done"
    problem,       \* argument of the last _detect_problem_type call
    detected,      \* value returned by the last _detect_problem_type call
    cot_response,  \* argument of the current parse_steps call
    lines,         \* parse_steps: cot_response.split('\n')
    li,            \* parse_steps: index in lines of the next line of the for loop
    current_step,  \* parse_steps: the accumulator
    step_number,   \* parse_steps: the step counter
    steps,         \* parse_steps: the list of steps
    fallback,      \* parse_steps: whether line 181 (the sentence fallback) ran
    result,        \* value returned by the last parse_steps call
    raised,        \* parse_steps: whether its except branch (lines 186-193) ran
    log,           \* the parse_steps calls returned so far, in order: pairs
                   \* <<argument, value returned>>
    generator,     \* the fields of the CoTGenerator
    mm,            \* the model manager behind generator.model_manager
    app,           \* the request handler of the app (src/app.py, lines 262-374)
    other,         \* the frame of a second, concurrent parse_steps call
    classified,    \* argument and value returned of the last _classify_step call
    session        \* the app's session state (src/app.py, lines 35-45) and the
                   \* position of its sidebar handlers

\* The variables of the first caller's frame.
frame == <<pc, problem, detected, cot_response, lines, li, current_step,
           step_number, steps, fallback, result, raised>>

\* The variables outside a parse_steps or _detect_problem_type frame.
env == <<generator, mm, app, other, classified, session>>

vars == <<frame, log, env>>

-----------------------------------------------------------------------------
(* Python's str operations.                                                *)

\* s[i-1] in Python terms: the i-th character (1-based) of s.
At(s, i) == SubSeq(s, i, i)

\* The whitespace characters of the alphabet: what str.strip() removes and
\* what the regular-expression class \s matches.
WS == {" ", "\t", "\n", "\r"}

DIGITS == {"0", "1", "2", "3", "4", "5", "6", "7", "8", "9"}

\* str.lower() on one character.
LowerOf ==
    ("A" :> "a") @@ ("B" :> "b") @@ ("C" :> "c") @@ ("D" :> "d") @@
    ("E" :> "e") @@ ("F" :> "f") @@ ("G" :> "g") @@ ("H" :> "h") @@
    ("I" :> "i") @@ ("J" :> "j") @@ ("K" :> "k") @@ ("L" :> "l") @@
    ("M" :> "m") @@ ("N" :> "n") @@ ("O" :> "o") @@ ("P" :> "p") @@
    ("Q" :> "q") @@ ("R" :> "r") @@ ("S" :> "s") @@ ("T" :> "t") @@
    ("U" :> "u") @@ ("V" :> "v") @@ ("W" :> "w") @@ ("X" :> "x") @@
    ("Y" :> "y") @@ ("Z" :> "z")

LowerChar(c) == IF c \in DOMAIN LowerOf THEN LowerOf[c] ELSE c

\* str.lower(): every character lowered, the two halves of the string in
\* turn.
RECURSIVE Lower(_)
Lower(s) ==
    IF Len(s) <= 1 THEN LowerChar(s)
    ELSE LET h == Len(s) \div 2
         IN  Lower(SubSeq(s, 1, h)) \o Lower(SubSeq(s, h + 1, Len(s)))

\* str.strip()
Strip(s) ==
    LET keep == {i \in 1..Len(s) : At(s, i) \notin WS}
    IN  IF keep = {} THEN ""
        ELSE LET first == CHOOSE i \in keep : \A j \in keep : i <= j
                 last  == CHOOSE i \in keep : \A j \in keep : j <= i
             IN  SubSeq(s, first, last)

\* keyword in s
Contains(s, keyword) ==
    \E i \in 1..(Len(s) - Len(keyword) + 1) :
        SubSeq(s, i, i + Len(keyword) - 1) = keyword

\* any(keyword in s for keyword in keywords)
AnyIn(s, keywords) == \E k \in 1..Len(keywords) : Contains(s, keywords[k])

\* s.split(sep) for a one-character separator: the pieces between the
\* separators, empty pieces included.
RECURSIVE Split(_, _)
Split(s, sep) ==
    LET hits == {i \in 1..Len(s) : At(s, i) = sep}
    IN  IF hits = {} THEN <<s>>
        ELSE LET i == CHOOSE h \in hits : \A g \in hits : h <= g
             IN  <<SubSeq(s, 1, i - 1)>> \o Split(SubSeq(s, i + 1, Len(s)), sep)

\* str(n) for n >= 0: the decimal numeral.
RECURSIVE Str(_)
Str(n) ==
    IF n < 10 THEN At("0123456789", n + 1)
    ELSE Str(n \div 10) \o At("0123456789", (n % 10) + 1)

-----------------------------------------------------------------------------
(* _detect_problem_type                                                    *)

math_keywords ==
    <<"calculate", "solve", "equation", "multiply", "divide", "add", "subtract",
      "percent", "%", "fraction", "decimal", "number", "sum", "difference",
      "mph", "miles", "hours", "minutes", "seconds", "distance", "time",
      "workers", "days", "build", "complete", "fence", "perimeter", "area",
      "price", "cost", "discount", "tax", "total", "amount">>

logic_keywords ==
    <<"if", "then", "either", "or", "all", "some", "none", "always", "never",
      "taller", "shorter", "faster", "slower", "before", "after", "position",
      "race", "finished", "student", "passed", "class", "roses", "flowers",
      "conclude", "therefore", "because", "since", "given", "assume">>

riddle_keywords ==
    <<"riddle", "what am i", "guess", "mystery", "puzzle", "keys", "locks",
      "space", "room", "enter", "outside", "wetter", "dries", "young", "old",
      "eye", "cannot see", "take", "leave behind", "clue", "hint">>

\* Faulty variant: the logic list is tested before the math list.
_detect_problem_type_logic_first(p) ==
    LET problem_lower == Lower(p)
    IN  IF AnyIn(problem_lower, logic_keywords) THEN "logic"
        ELSE IF AnyIn(problem_lower, math_keywords) THEN "math"
        ELSE IF AnyIn(problem_lower, riddle_keywords) THEN "riddle"
        ELSE "general"

\* Faulty variant: the riddle list is tested before the logic list.
_detect_problem_type_riddle_first(p) ==
    LET problem_lower == Lower(p)
    IN  IF AnyIn(problem_lower, math_keywords) THEN "math"
        ELSE IF AnyIn(problem_lower, riddle_keywords) THEN "riddle"
        ELSE IF AnyIn(problem_lower, logic_keywords) THEN "logic"
        ELSE "general"

\* Faulty variant: the input is not lower-cased.
_detect_problem_type_case_sensitive(p) ==
    IF AnyIn(p, math_keywords) THEN "math"
    ELSE IF AnyIn(p, logic_keywords) THEN "logic"
    ELSE IF AnyIn(p, riddle_keywords) THEN "riddle"
    ELSE "general"

_detect_problem_type(p) ==
    LET problem_lower == Lower(p)
    IN  IF AnyIn(problem_lower, math_keywords) THEN "math"
        ELSE IF AnyIn(problem_lower, logic_keywords) THEN "logic"
        ELSE IF AnyIn(problem_lower, riddle_keywords) THEN "riddle"
        ELSE "general"

-----------------------------------------------------------------------------
(* Regular expressions of parse_steps.  A pattern is a sequence of         *)
(* elements, each a character class with a quantifier: "1" exactly one,    *)
(* "+" one or more, "?" at most one, "*" any number.  All matching is      *)
(* case-insensitive (re.IGNORECASE): classes hold lower-case characters    *)
(* and the subject is lower-cased.                                         *)

Lit(w)    == [i \in 1..Len(w) |-> [cls |-> {LowerChar(At(w, i))}, q |-> "1"]]
One(set)  == <<[cls |-> set, q |-> "1"]>>
Plus(set) == <<[cls |-> set, q |-> "+"]>>
Opt(set)  == <<[cls |-> set, q |-> "?"]>>
Star(set) == <<[cls |-> set, q |-> "*"]>>

\* [,\s]
CommaOrSpace == {","} \cup WS

step_patterns ==
    << Lit("Step") \o Plus(WS) \o Plus(DIGITS) \o Opt({":", "-"}) \o Star(WS),
       Plus(DIGITS) \o One({".", ")"}) \o Star(WS),
       Lit("First") \o One(CommaOrSpace),
       Lit("Second") \o One(CommaOrSpace),
       Lit("Third") \o One(CommaOrSpace),
       Lit("Fourth") \o One(CommaOrSpace),
       Lit("Fifth") \o One(CommaOrSpace),
       Lit("Next") \o One(CommaOrSpace),
       Lit("Then") \o One(CommaOrSpace),
       Lit("Now") \o One(CommaOrSpace),
       Lit("Finally") \o One(CommaOrSpace),
       Lit("Therefore") \o One(CommaOrSpace),
       Lit("So") \o One(CommaOrSpace),
       Lit("Thus") \o One(CommaOrSpace),
       Lit("Hence") \o One(CommaOrSpace),
       Lit("As") \o Plus(WS) \o Lit("a") \o Plus(WS) \o Lit("result") \o One(CommaOrSpace),
       Lit("In") \o Plus(WS) \o Lit("conclusion") \o One(CommaOrSpace),
       Lit("To") \o Plus(WS) \o Lit("summarize") \o One(CommaOrSpace),
       Lit("Let") \o Plus(WS) \o Lit("me") \o Plus(WS),
       Lit("I") \o Plus(WS) \o Lit("need") \o Plus(WS) \o Lit("to") \o Plus(WS),
       Lit("I") \o Plus(WS) \o Lit("will") \o Plus(WS),
       Lit("I") \o Plus(WS) \o Lit("should") \o Plus(WS),
       Lit("I") \o Plus(WS) \o Lit("can") \o Plus(WS),
       Lit("We") \o Plus(WS) \o Lit("can") \o Plus(WS),
       Lit("We") \o Plus(WS) \o Lit("need") \o Plus(WS) \o Lit("to") \o Plus(WS) >>

\* Whether elements k.. of pat match a prefix of low starting at position i.
RECURSIVE MatchAt(_, _, _, _)
MatchAt(pat, k, low, i) ==
    IF k > Len(pat) THEN TRUE
    ELSE LET e   == pat[k]
             hit == i <= Len(low) /\ At(low, i) \in e.cls
         IN  CASE e.q = "1" -> hit /\ MatchAt(pat, k + 1, low, i + 1)
               [] e.q = "+" -> hit /\ (MatchAt(pat, k, low, i + 1)
                                       \/ MatchAt(pat, k + 1, low, i + 1))
               [] e.q = "?" -> MatchAt(pat, k + 1, low, i)
                               \/ (hit /\ MatchAt(pat, k + 1, low, i + 1))
               [] e.q = "*" -> MatchAt(pat, k + 1, low, i)
                               \/ (hit /\ MatchAt(pat, k, low, i + 1))

\* Faulty variant: the pattern is matched at the start of the line only, as
\* re.match does.
re_search_at_start(pat, low) == MatchAt(pat, 1, low, 1)

\* re.search(pattern, s, re.IGNORECASE) is not None, for low the
\* lower-cased s: the pattern matches at some position.
re_search(pat, low) == \E i \in 1..Len(low) : MatchAt(pat, 1, low, i)

\* any(re.search(pattern, line, re.IGNORECASE) for pattern in step_patterns)
is_new_step(text_line) ==
    LET low == Lower(text_line)
    IN  \E p \in 1..Len(step_patterns) : re_search(step_patterns[p], low)

\* The sentence terminators of r'[.!?]+'
TERMINATORS == {".", "!", "?"}

\* re.split(r'[.!?]+', s): the pieces between the maximal runs of
\* terminators, empty pieces included.
RECURSIVE re_split(_)
re_split(s) ==
    LET hits == {i \in 1..Len(s) : At(s, i) \in TERMINATORS}
    IN  IF hits = {} THEN <<s>>
        ELSE LET i    == CHOOSE h \in hits : \A g \in hits : h <= g
                 rest == {j \in (i + 1)..Len(s) : At(s, j) \notin TERMINATORS}
                 j    == IF rest = {} THEN Len(s) + 1
                         ELSE CHOOSE h \in rest : \A g \in rest : h <= g
             IN  <<SubSeq(s, 1, i - 1)>> \o re_split(SubSeq(s, j, Len(s)))

-----------------------------------------------------------------------------
(* _classify_step, _create_step_data, _fallback_parsing                    *)

\* The keyword families of _classify_step.  The source lists two more
\* calculation keywords, both made of non-ASCII characters; no text over
\* the model's alphabet contains them.
calculation_words ==
    <<"calculate", "multiply", "divide", "add", "subtract",
      "formula", "equation", "=", "+", "-", "*", "/">>

conclusion_words ==
    <<"therefore", "so", "conclude", "answer", "result",
      "thus", "hence", "finally", "in conclusion", "as a result">>

assumption_words ==
    <<"assume", "given", "known", "fact", "premise",
      "suppose", "let", "if", "since", "because">>

analysis_words ==
    <<"analyze", "examine", "consider", "think", "reason",
      "understand", "identify", "determine", "find">>

\* Faulty variant: the conclusion family is tested before the calculation
\* family.
_classify_step_conclusion_first(step_content) ==
    LET content_lower == Lower(step_content)
    IN  IF AnyIn(content_lower, conclusion_words) THEN "conclusion"
        ELSE IF AnyIn(content_lower, calculation_words) THEN "calculation"
        ELSE IF AnyIn(content_lower, assumption_words) THEN "assumption"
        ELSE IF AnyIn(content_lower, analysis_words) THEN "analysis"
        ELSE "reasoning"

_classify_step(step_content) ==
    LET content_lower == Lower(step_content)
    IN  IF AnyIn(content_lower, calculation_words) THEN "calculation"
        ELSE IF AnyIn(content_lower, conclusion_words) THEN "conclusion"
        ELSE IF AnyIn(content_lower, assumption_words) THEN "assumption"
        ELSE IF AnyIn(content_lower, analysis_words) THEN "analysis"
        ELSE "reasoning"

\* Faulty variant: only empty content is skipped, short content is kept.
_create_step_data_keeps_short(content, number) ==
    IF content = "" THEN <<>>
    ELSE <<[step_number |-> Str(number),
            content     |-> Strip(content),
            type        |-> _classify_step(content)]>>

\* Optional[Dict]: the empty sequence is None, a one-element sequence is
\* the step.
_create_step_data(content, number) ==
    IF content = "" \/ Len(Strip(content)) < 5 THEN <<>>
    ELSE <<[step_number |-> Str(number),
            content     |-> Strip(content),
            type        |-> _classify_step(content)]>>

\* The loop of _fallback_parsing from the i-th sentence on.
RECURSIVE FallbackFrom(_, _)
FallbackFrom(sentences, i) ==
    IF i > Len(sentences) THEN <<>>
    ELSE LET sentence == Strip(sentences[i])
         IN  (IF Len(sentence) > 10
              THEN <<[step_number |-> Str(i),
                      content     |-> sentence,
                      type        |-> _classify_step(sentence)]>>
              ELSE <<>>)
             \o FallbackFrom(sentences, i + 1)

\* Faulty variant: the response is split at every "." only.
_fallback_parsing_dots_only(response) == FallbackFrom(Split(response, "."), 1)

\* _fallback_parsing, lines 206-221.
_fallback_parsing(response) == FallbackFrom(re_split(response), 1)

-----------------------------------------------------------------------------
(* The inputs.                                                             *)

\* Bounds of the input sets.
MaxProblemTokens == 3
MaxTokens == 3
MaxShortLines == 6

\* All concatenations of at most n tokens of vocab.
RECURSIVE Compose(_, _)
Compose(vocab, n) ==
    IF n = 0 THEN {""}
    ELSE LET shorter == Compose(vocab, n - 1)
         IN  shorter \cup {t \o w : t \in shorter, w \in vocab}

\* All texts of 1..n lines of vocab, joined by line breaks.
RECURSIVE LinesOf(_, _)
LinesOf(vocab, n) ==
    IF n = 1 THEN vocab
    ELSE LET shorter == LinesOf(vocab, n - 1)
         IN  shorter \cup {t \o "\n" \o w : t \in shorter, w \in vocab}

ScenarioA == "Step 1: I need to find 2+2.\nStep 2: The answer is 4."
ScenarioB == "The cat sat on the mat. It was happy. Therefore it purred."
ScenarioC == "If a train leaves at 3 PM traveling at 60 mph..."
ScenarioD == "Hi"

\* Problem texts given to _detect_problem_type.
ProblemVocab == {"60 mph", "If ", "KEYS", "riddle", "Hello", " "}

\* The questions of ExampleProblems (examples.py), list by list.  The two
\* non-ASCII characters of the fourth math question stand here as "##"; no
\* keyword contains either.
math_problems ==
    << "If a train leaves the station at 3 PM traveling at 60 mph and needs to cover 180 miles, what time will it arrive?",
       "A store offers a 25% discount on a $80 item. What is the final price after a 8% sales tax is applied?",
       "If 3 workers can build a wall in 6 days, how many days will it take 9 workers to build the same wall?",
       "What is 123 ## 45?",
       "A rectangular garden is 15 feet long and 8 feet wide. If you want to put a fence around it, how many feet of fencing do you need?" >>

logic_problems ==
    << "Alice is taller than Bob. Bob is taller than Carol. Carol is taller than David. Who is the tallest?",
       "If all roses are flowers, and some flowers are red, can we conclude that some roses are red?",
       "In a race, Tom finished before Jerry, Jerry finished before Spike, and Spike finished before Tyke. If there were only these 4 participants, what was Jerry's position?",
       "Every student in the class passed the test. Sarah is in the class. Did Sarah pass the test?",
       "If it rains, then the ground gets wet. The ground is wet. Did it rain?" >>

riddles ==
    << "I have keys but no locks. I have space but no room. You can enter but not go outside. What am I?",
       "What gets wetter as it dries?",
       "I'm tall when I'm young and short when I'm old. What am I?",
       "What has an eye but cannot see?",
       "The more you take, the more you leave behind. What am I?" >>

ExampleQuestions ==
    {math_problems[i] : i \in 1..Len(math_problems)}
    \cup {logic_problems[i] : i \in 1..Len(logic_problems)}
    \cup {riddles[i] : i \in 1..Len(riddles)}

Problems ==
    {ScenarioC} \cup Compose(ProblemVocab, MaxProblemTokens) \cup ExampleQuestions

\* Response texts given to parse_steps: the scenarios, texts composed of
\* words, marker phrases, terminators and line breaks, and texts whose
\* lines are all shorter than five characters.
ResponseVocab ==
    {"\n", " ", ". ", "Hi", "1)", "It was happy",
     "Then, the answer is 4", "I need to find 2+2"}

ShortLines == {"10)", "11.", "a!"}

Scenarios ==
    {ScenarioA, ScenarioB, ScenarioD,
     "  \n\t ",
     "Suppose it rains\nFirst, we examine the data\n\nIt was happy",
     "Hm?! The sum is 2+2... Therefore the answer is 4!",
     "I need to find 2+2\nthe total is 5, so we stop",
     "It was happy\n\nTHE TOTAL IS 5, SO WE STOP",
     "1.\n1.\n1.\n1.\n1.\n1.\n1.\n1.\n1.\n10)\n10)\n10)!\n10)\n10)\n10)"}

\* Step contents given to _classify_step: every keyword of the four
\* families, alone and inside a sentence.
StepContents ==
    LET words == calculation_words \o conclusion_words
                 \o assumption_words \o analysis_words
    IN  {pre \o words[k] \o post :
            k \in 1..Len(words), pre \in {"", "we "}, post \in {"", " it"}}
        \cup {"It was happy"}

Responses ==
    Scenarios \cup Compose(ResponseVocab, MaxTokens)
              \cup LinesOf(ShortLines, MaxShortLines)

-----------------------------------------------------------------------------
(* The state machine: one caller of a CoTGenerator.                        *)

\* CoTGenerator.__init__: the fields of a new generator; the four prompt
\* templates are named by their keys.
NewGenerator ==
    [model_manager |-> "model_manager",
     max_length    |-> 512,
     cot_templates |-> {"general", "math", "logic", "riddle"}]

\* The model manager as the generator sees it: the number of is_ready and
\* generate_response calls received, the last answer of is_ready, and the
\* outcome of the last generate_response call (a text returned or an error
\* raised).
NewModelManager ==
    [is_ready_calls |-> 0, generate_calls |-> 0, ready |-> "not asked",
     outcome |-> [kind |-> "none", value |-> ""]]

\* No _classify_step call made yet.
NotClassified == [content |-> "", type |-> "none"]

\* st.session_state.cot_generator is None.
NoGenerator == [model_manager |-> 0, max_length |-> 0]

\* The session state of a new session, lines 35-45: no model manager (0
\* stands for None, n > 0 for the n-th ModelManager built), no generator, no
\* loading in progress; no sidebar handler is running, none has failed, no
\* manager was built and the slider is at its default.
NewSession ==
    [pc |-> "idle", model_manager |-> 0, cot_generator |-> NoGenerator,
     model_loading |-> FALSE, max_length |-> 1024, built |-> 0,
     error |-> "none"]

\* The app before the Generate button is pressed.
IdleApp ==
    [pc |-> "idle", problem_to_solve |-> "", cot_response |-> "", error |-> "none"]

\* The locals of a second caller's call; none is in progress.  The field
\* overlap tells whether the call took a step while the first caller was
\* in the middle of its scan.
NoFrame ==
    [pc |-> "none", problem |-> "", detected |-> "none", cot_response |-> "",
     lines |-> <<>>, li |-> 1, current_step |-> "", step_number |-> 1,
     steps |-> <<>>, result |-> <<>>, overlap |-> FALSE]

Init ==
    /\ pc = "idle"
    /\ problem = ""
    /\ detected = "none"
    /\ cot_response = ""
    /\ lines = <<>>
    /\ li = 1
    /\ current_step = ""
    /\ step_number = 1
    /\ steps = <<>>
    /\ fallback = FALSE
    /\ result = <<>>
    /\ raised = FALSE
    /\ log = <<>>
    /\ generator = NewGenerator
    /\ mm = NewModelManager
    /\ app = IdleApp
    /\ other = NoFrame
    /\ classified = NotClassified
    /\ session = NewSession

\* A call of _detect_problem_type(p), lines 47-76.
DetectProblemType ==
    /\ pc = "idle"
    /\ \E p \in Problems :
        /\ problem' = p
        /\ detected' = _detect_problem_type(p)
    /\ pc' = "detected"
    /\ UNCHANGED <<cot_response, lines, li, current_step, step_number, steps,
                   fallback, result, raised, log, env>>

\* Faulty variant: the step list and the step counter are kept from the
\* previous call.
ParseStepsBegin_keeps_steps(t) ==
    /\ cot_response' = t
    /\ lines' = Split(t, "\n")
    /\ current_step' = ""
    /\ li' = 1
    /\ pc' = "scan"
    /\ fallback' = FALSE
    /\ raised' = FALSE
    /\ result' = <<>>
    /\ UNCHANGED <<steps, step_number>>

\* parse_steps(t) up to the for loop, lines 112-150: the locals of the call.
ParseStepsBegin(t) ==
    /\ cot_response' = t
    /\ lines' = Split(t, "\n")
    /\ current_step' = ""
    /\ step_number' = 1
    /\ steps' = <<>>
    /\ li' = 1
    /\ pc' = "scan"
    /\ fallback' = FALSE
    /\ raised' = FALSE
    /\ result' = <<>>

\* A call of parse_steps(t).
ParseStepsCall ==
    /\ pc = "idle"
    /\ \E t \in Responses : ParseStepsBegin(t)
    /\ UNCHANGED <<problem, detected, log, env>>

\* The line the for loop is at, after line 152's strip.
line == Strip(lines[li])

\* Lines 151-154: a blank line is skipped.
SkipBlankLine ==
    /\ pc = "scan"
    /\ li <= Len(lines)
    /\ line = ""
    /\ li' = li + 1
    /\ UNCHANGED <<pc, problem, detected, cot_response, lines, current_step,
                   step_number, steps, fallback, result,
                   raised, log, env>>

\* Faulty variant: the marker line is appended to the accumulator, which
\* is not restarted.
NewStepLine_appends ==
    /\ pc = "scan"
    /\ li <= Len(lines)
    /\ line # ""
    /\ is_new_step(line) /\ current_step # ""
    /\ LET step_data == _create_step_data(Strip(current_step), step_number)
       IN  /\ steps' = steps \o step_data
           /\ step_number' = IF step_data # <<>> THEN step_number + 1
                             ELSE step_number
    /\ current_step' = current_step \o " " \o line
    /\ li' = li + 1
    /\ UNCHANGED <<pc, problem, detected, cot_response, lines, fallback, result,
                   raised, log, env>>

\* Faulty variant: the step counter is not advanced after a step is saved.
NewStepLine_no_increment ==
    /\ pc = "scan"
    /\ li <= Len(lines)
    /\ line # ""
    /\ is_new_step(line) /\ current_step # ""
    /\ steps' = steps \o _create_step_data(Strip(current_step), step_number)
    /\ current_step' = line
    /\ li' = li + 1
    /\ UNCHANGED <<pc, problem, detected, cot_response, lines, step_number,
                   fallback, result,
                   raised, log, env>>

\* Faulty variant: the marker line closes the step and empties the
\* accumulator.
NewStepLine_clears ==
    /\ pc = "scan"
    /\ li <= Len(lines)
    /\ line # ""
    /\ is_new_step(line) /\ current_step # ""
    /\ LET step_data == _create_step_data(Strip(current_step), step_number)
       IN  /\ steps' = steps \o step_data
           /\ step_number' = IF step_data # <<>> THEN step_number + 1
                             ELSE step_number
    /\ current_step' = ""
    /\ li' = li + 1
    /\ UNCHANGED <<pc, problem, detected, cot_response, lines, fallback, result,
                   raised, log, env>>

\* Faulty variant: the step counter advances at every marker line, also when
\* the closed fragment is dropped.
NewStepLine_always_increments ==
    /\ pc = "scan"
    /\ li <= Len(lines)
    /\ line # ""
    /\ is_new_step(line) /\ current_step # ""
    /\ steps' = steps \o _create_step_data(Strip(current_step), step_number)
    /\ step_number' = step_number + 1
    /\ current_step' = line
    /\ li' = li + 1
    /\ UNCHANGED <<pc, problem, detected, cot_response, lines, fallback, result,
                   raised, log, env>>

\* Lines 157-165: a marker line read with a non-empty accumulator closes
\* the accumulated step and starts a new one.
NewStepLine ==
    /\ pc = "scan"
    /\ li <= Len(lines)
    /\ line # ""
    /\ is_new_step(line) /\ current_step # ""
    /\ LET step_data == _create_step_data(Strip(current_step), step_number)
       IN  /\ steps' = steps \o step_data
           /\ step_number' = IF step_data # <<>> THEN step_number + 1
                             ELSE step_number
    /\ current_step' = line
    /\ li' = li + 1
    /\ UNCHANGED <<pc, problem, detected, cot_response, lines, fallback, result,
                   raised, log, env>>

\* Faulty variant: the line is put in front of the accumulator.
ContinueLine_prepends ==
    /\ pc = "scan"
    /\ li <= Len(lines)
    /\ line # ""
    /\ ~(is_new_step(line) /\ current_step # "")
    /\ current_step' = IF current_step # "" THEN line \o " " \o current_step
                       ELSE line
    /\ li' = li + 1
    /\ UNCHANGED <<pc, problem, detected, cot_response, lines, step_number,
                   steps, fallback, result, raised, log, env>>

\* Lines 157-159, 166-171: any other non-blank line is appended to the
\* accumulator.
ContinueLine ==
    /\ pc = "scan"
    /\ li <= Len(lines)
    /\ line # ""
    /\ ~(is_new_step(line) /\ current_step # "")
    /\ current_step' = IF current_step # "" THEN current_step \o " " \o line
                       ELSE line
    /\ li' = li + 1
    /\ UNCHANGED <<pc, problem, detected, cot_response, lines, step_number,
                   steps, fallback, result,
                   raised, log, env>>

\* Lines 173-177: after the loop the accumulator is closed as the last step.
AddLastStep ==
    /\ pc = "scan"
    /\ li > Len(lines)
    /\ steps' = IF current_step # ""
                THEN steps \o _create_step_data(Strip(current_step), step_number)
                ELSE steps
    /\ pc' = "check"
    /\ UNCHANGED <<problem, detected, cot_response, lines, li, current_step,
                   step_number, fallback, result,
                   raised, log, env>>

\* Faulty variant: the sentence fallback is applied also when the scan
\* found steps, and its steps are returned when they are more.
ReturnSteps_prefers_sentences ==
    /\ pc = "check"
    /\ steps # <<>>
    /\ LET sentences == _fallback_parsing(cot_response)
       IN  /\ fallback' = (Len(sentences) > Len(steps))
           /\ result' = IF Len(sentences) > Len(steps) THEN sentences ELSE steps
    /\ pc' = "done"
    /\ log' = Append(log, <<cot_response, result'>>)
    /\ UNCHANGED <<problem, detected, cot_response, lines, li, current_step,
                   step_number, steps, raised, env>>

\* Faulty variant: the call records the number of steps in the generator.
ReturnSteps_records_length ==
    /\ pc = "check"
    /\ steps # <<>>
    /\ result' = steps
    /\ fallback' = FALSE
    /\ pc' = "done"
    /\ log' = Append(log, <<cot_response, result'>>)
    /\ generator' = [generator EXCEPT !.max_length = Len(steps)]
    /\ UNCHANGED <<problem, detected, cot_response, lines, li, current_step,
                   step_number, steps, raised, mm, app, other,
                   classified, session>>

\* Lines 180, 183-184: steps were found and are returned.
ReturnSteps ==
    /\ pc = "check"
    /\ steps # <<>>
    /\ result' = steps
    /\ fallback' = FALSE
    /\ pc' = "done"
    /\ log' = Append(log, <<cot_response, result'>>)
    /\ UNCHANGED <<problem, detected, cot_response, lines, li, current_step,
                   step_number, steps, raised, env>>

\* Faulty variant: when the fallback finds no sentence either, the trimmed
\* response is returned as one step.
FallbackReturn_never_empty ==
    /\ pc = "check"
    /\ steps = <<>>
    /\ steps' = IF _fallback_parsing(cot_response) # <<>>
                THEN _fallback_parsing(cot_response)
                ELSE << [step_number |-> "1",
                         content     |-> Strip(cot_response),
                         type        |-> "reasoning"] >>
    /\ result' = steps'
    /\ fallback' = TRUE
    /\ pc' = "done"
    /\ log' = Append(log, <<cot_response, result'>>)
    /\ UNCHANGED <<problem, detected, cot_response, lines, li, current_step,
                   step_number, raised, env>>

\* Lines 180-184: no steps were found; the sentence fallback's steps are
\* returned.
FallbackReturn ==
    /\ pc = "check"
    /\ steps = <<>>
    /\ steps' = _fallback_parsing(cot_response)
    /\ result' = steps'
    /\ fallback' = TRUE
    /\ pc' = "done"
    /\ log' = Append(log, <<cot_response, result'>>)
    /\ UNCHANGED <<problem, detected, cot_response, lines, li, current_step,
                   step_number, raised, env>>

\* Faulty variant: the handler returns the steps collected before the failure.
ParseStepsExcept_returns_partial ==
    /\ pc \in {"scan", "check"}
    /\ raised' = TRUE
    /\ result' = steps
    /\ pc' = "done"
    /\ log' = Append(log, <<cot_response, result'>>)
    /\ UNCHANGED <<problem, detected, cot_response, lines, li, current_step,
                   step_number, steps, fallback, env>>

\* except Exception, lines 186-193: a failure raised anywhere in the try
\* block (the line scan or the sentence fallback) is logged and absorbed; the
\* whole trimmed response is returned as one reasoning step numbered "1".
ParseStepsExcept ==
    /\ pc \in {"scan", "check"}
    /\ raised' = TRUE
    /\ result' = << [step_number |-> "1",
                     content     |-> Strip(cot_response),
                     type        |-> "reasoning"] >>
    /\ pc' = "done"
    /\ log' = Append(log, <<cot_response, result'>>)
    /\ UNCHANGED <<problem, detected, cot_response, lines, li, current_step,
                   step_number, steps, fallback, env>>

\* A call of _fallback_parsing(t), lines 206-221.
FallbackParsingCall ==
    /\ pc = "idle"
    /\ \E t \in Responses :
        /\ cot_response' = t
        /\ result' = _fallback_parsing(t)
    /\ pc' = "fallback_done"
    /\ UNCHANGED <<problem, detected, lines, li, current_step, step_number,
                   steps, fallback, raised, log, env>>

\* A call of _classify_step(c), lines 223-248.
ClassifyStepCall ==
    /\ pc = "idle"
    /\ \E c \in StepContents :
        classified' = [content |-> c, type |-> _classify_step(c)]
    /\ pc' = "classified"
    /\ UNCHANGED <<problem, detected, cot_response, lines, li, current_step,
                   step_number, steps, fallback, result, raised, log,
                   generator, mm, app, other, session>>

\* Bound of the number of parse_steps calls of one behaviour.
MaxCalls == 3

\* The texts and problems of the callers that call more than once.
RepeatedResponses ==
    {"It was happy\n\nThen, the answer is 4",
     "It was happy\nThen, the answer is 4",
     "10)\n10)\n1.",
     "10)\n\n10)\n\n1."}

RepeatedProblems == {ScenarioC, "KEYS"}

\* A further call of parse_steps(t) on the same generator, after any
\* earlier call has returned.
ParseStepsAgain ==
    /\ pc \in {"idle", "detected", "done"}
    /\ Len(log) < MaxCalls
    /\ \E t \in RepeatedResponses : ParseStepsBegin(t)
    /\ UNCHANGED <<problem, detected, log, env>>

\* A further call of _detect_problem_type(p) on the same generator.
DetectProblemTypeAgain ==
    /\ pc \in {"idle", "detected", "done"}
    /\ \E p \in RepeatedProblems :
        /\ problem' = p
        /\ detected' = _detect_problem_type(p)
    /\ pc' = "detected"
    /\ UNCHANGED <<cot_response, lines, li, current_step, step_number, steps,
                   fallback, result, raised, log, env>>

Next ==
    \/ DetectProblemType
    \/ ParseStepsCall
    \/ SkipBlankLine
    \/ NewStepLine
    \/ ContinueLine
    \/ AddLastStep
    \/ ReturnSteps
    \/ FallbackReturn
    \/ FallbackParsingCall
    \/ ClassifyStepCall

Spec == Init /\ [][Next]_vars

\* The problems typed into the app, the answers of is_ready() and the
\* outcomes of generate_response(): a text, or an error raised by the model
\* manager.
AppProblems == {ScenarioC, "KEYS", "Hello", "Solve the riddle"}

ReadyAnswers == {"True", "False", "AttributeError: is_ready"}

NotReadyError == "RuntimeError: Model is not ready. Please initialize the model first."

GenerateOutcomes ==
    {[kind |-> "text", value |-> t] :
        t \in {ScenarioA, ScenarioB, ScenarioD, "  \n\t ",
               "It was happy\n\nThen, the answer is 4"}}
    \cup {[kind |-> "error", value |-> x] :
        x \in {"RuntimeError: CUDA out of memory", "TypeError: top_p"}}

\* app.py, lines 262-273: the Generate button is pressed with a problem and a
\* loaded generator.
AppGenerateClick ==
    /\ app.pc = "idle"
    /\ pc = "idle"
    /\ \E p \in AppProblems :
        app' = [app EXCEPT !.pc = "generate_cot", !.problem_to_solve = p]
    /\ UNCHANGED <<frame, log, generator, mm, other,
                   classified, session>>

\* Faulty variant: the answer False of is_ready() is ignored.
GenIsReady_ignores_answer ==
    /\ app.pc = "generate_cot"
    /\ \E a \in ReadyAnswers :
        /\ mm' = [mm EXCEPT !.is_ready_calls = @ + 1, !.ready = a]
        /\ app' = IF a \in {"True", "False"} THEN [app EXCEPT !.pc = "detect"]
                  ELSE [app EXCEPT !.pc = "error", !.error = a]
    /\ UNCHANGED <<frame, log, generator, other, classified, session>>

\* generate_cot, lines 80-82 and 108-110: is_ready() is asked; an answer False
\* raises RuntimeError, and an error of is_ready() itself is re-raised; the
\* app reports the error (app.py, lines 372-374).
GenIsReady ==
    /\ app.pc = "generate_cot"
    /\ \E a \in ReadyAnswers :
        /\ mm' = [mm EXCEPT !.is_ready_calls = @ + 1, !.ready = a]
        /\ app' = IF a = "True" THEN [app EXCEPT !.pc = "detect"]
                  ELSE [app EXCEPT !.pc = "error",
                                   !.error = IF a = "False" THEN NotReadyError
                                             ELSE a]
    /\ UNCHANGED <<frame, log, generator, other, classified, session>>

\* generate_cot, lines 85-89: the problem type is detected and its template
\* selected and formatted.
GenDetect ==
    /\ app.pc = "detect"
    /\ problem' = app.problem_to_solve
    /\ detected' = _detect_problem_type(app.problem_to_solve)
    /\ detected' \in generator.cot_templates
    /\ pc' = "detected"
    /\ app' = [app EXCEPT !.pc = "generate_response"]
    /\ UNCHANGED <<cot_response, lines, li, current_step, step_number, steps,
                   fallback, result, raised, log, generator, mm, other,
                   classified, session>>

\* Faulty variant: an error of generate_response is replaced by a text.
GenResponse_masks_error ==
    /\ app.pc = "generate_response"
    /\ \E o \in GenerateOutcomes :
        /\ mm' = [mm EXCEPT !.generate_calls = @ + 1, !.outcome = o]
        /\ app' = [app EXCEPT !.pc = "parse",
                              !.cot_response = IF o.kind = "text" THEN o.value
                                               ELSE "Error: " \o o.value]
    /\ UNCHANGED <<frame, log, generator, other, classified, session>>

\* generate_cot, lines 95-110, and app.py, lines 283-287 and 372-374:
\* generate_response is called once; its text is returned as it is to the
\* app, its error is logged, re-raised and reported by the app.
GenResponse ==
    /\ app.pc = "generate_response"
    /\ \E o \in GenerateOutcomes :
        /\ mm' = [mm EXCEPT !.generate_calls = @ + 1, !.outcome = o]
        /\ app' = IF o.kind = "text"
                  THEN [app EXCEPT !.pc = "parse", !.cot_response = o.value]
                  ELSE [app EXCEPT !.pc = "error", !.error = o.value]
    /\ UNCHANGED <<frame, log, generator, other, classified, session>>

\* app.py, line 294: the app calls parse_steps on the text of generate_cot.
AppParse ==
    /\ app.pc = "parse"
    /\ ParseStepsBegin(app.cot_response)
    /\ app' = [app EXCEPT !.pc = "parsing"]
    /\ UNCHANGED <<problem, detected, log, generator, mm, other,
                   classified, session>>

\* app.py, lines 296-370: the steps returned by parse_steps are displayed.
AppDisplay ==
    /\ app.pc = "parsing"
    /\ pc = "done"
    /\ app' = [app EXCEPT !.pc = "shown"]
    /\ UNCHANGED <<frame, log, generator, mm, other,
                   classified, session>>

\* parse_steps(t) up to the for loop, lines 112-150, in the frame of a
\* second caller.
BeginFrame(t) ==
    [NoFrame EXCEPT !.pc = "scan", !.cot_response = t,
                    !.lines = Split(t, "\n")]

\* One step of parse_steps, lines 151-184, on the locals f of a call: a
\* blank line skipped, a step closed at a marker line, a line appended, the
\* last step closed, the steps or the fallback's steps returned.
StepFrame(f) ==
    IF f.pc = "scan" /\ f.li <= Len(f.lines)
    THEN LET l == Strip(f.lines[f.li])
         IN  IF l = "" THEN [f EXCEPT !.li = @ + 1]
             ELSE IF is_new_step(l) /\ f.current_step # ""
             THEN LET step_data == _create_step_data(Strip(f.current_step),
                                                     f.step_number)
                  IN  [f EXCEPT !.steps = @ \o step_data,
                                !.step_number = IF step_data # <<>> THEN @ + 1
                                                ELSE @,
                                !.current_step = l,
                                !.li = @ + 1]
             ELSE [f EXCEPT !.current_step = IF @ # "" THEN @ \o " " \o l
                                             ELSE l,
                            !.li = @ + 1]
    ELSE IF f.pc = "scan"
    THEN [f EXCEPT !.steps = IF f.current_step # ""
                             THEN @ \o _create_step_data(Strip(f.current_step),
                                                         f.step_number)
                             ELSE @,
                   !.pc = "check"]
    ELSE IF f.steps # <<>>
    THEN [f EXCEPT !.result = f.steps, !.pc = "done"]
    ELSE [f EXCEPT !.steps = _fallback_parsing(f.cot_response),
                   !.result = _fallback_parsing(f.cot_response),
                   !.pc = "done"]

\* The first caller calls parse_steps or _detect_problem_type once.
FirstCallerCall ==
    /\ pc = "idle"
    /\ \/ /\ \E t \in RepeatedResponses : ParseStepsBegin(t)
          /\ UNCHANGED <<problem, detected>>
       \/ /\ \E p \in RepeatedProblems :
               /\ problem' = p
               /\ detected' = _detect_problem_type(p)
          /\ pc' = "detected"
          /\ UNCHANGED <<cot_response, lines, li, current_step, step_number,
                         steps, fallback, result, raised>>
    /\ UNCHANGED <<log, env>>

\* A second caller calls _detect_problem_type(p) on the same generator.
OtherDetectProblemType ==
    /\ other.pc = "none"
    /\ \E p \in RepeatedProblems :
        other' = [NoFrame EXCEPT !.pc = "detected", !.problem = p,
                                 !.detected = _detect_problem_type(p)]
    /\ UNCHANGED <<frame, log, generator, mm, app,
                   classified, session>>

\* A second caller calls parse_steps(t) on the same generator.
OtherParseStepsCall ==
    /\ other.pc = "none"
    /\ \E t \in RepeatedResponses : other' = BeginFrame(t)
    /\ UNCHANGED <<frame, log, generator, mm, app,
                   classified, session>>

\* Faulty variant: the accumulator is one per generator, shared by the calls.
OtherParseStep_shared_accumulator ==
    /\ other.pc \in {"scan", "check"}
    /\ other' = [StepFrame([other EXCEPT !.current_step = current_step])
                    EXCEPT !.overlap = @ \/ (pc \in {"scan", "check"} /\ li > 1)]
    /\ UNCHANGED <<frame, log, generator, mm, app,
                   classified, session>>

\* The second caller's call takes one step, on its own locals.
OtherParseStep ==
    /\ other.pc \in {"scan", "check"}
    /\ other' = [StepFrame(other)
                    EXCEPT !.overlap = @ \/ (pc \in {"scan", "check"} /\ li > 1)]
    /\ UNCHANGED <<frame, log, generator, mm, app,
                   classified, session>>

\* The methods of the repository's ModelManager (src/core/model.py) and the
\* parameters of its generate_response, self not counted.
ModelManagerMethods ==
    {"__init__", "_get_device", "generate_response", "_detect_problem_type",
     "_extract_problem", "_generate_contextual_reasoning",
     "_generate_math_reasoning", "_generate_logic_reasoning",
     "_generate_riddle_reasoning", "_generate_general_reasoning",
     "_generate_generic_math_reasoning", "_generate_generic_logic_reasoning",
     "_generate_generic_riddle_reasoning", "get_model_info"}

generate_response_parameters == {"prompt", "max_length", "temperature", "do_sample"}

\* The arguments generate_cot passes to generate_response, lines 95-101.
GenerateArguments == {"prompt", "max_length", "temperature", "top_p", "do_sample"}

\* The error of a generate_cot call on a ModelManager of src/core/model.py:
\* a method that is not there raises AttributeError, an argument that is
\* not a parameter raises TypeError.
OwnManagerError ==
    IF "is_ready" \notin ModelManagerMethods THEN "AttributeError: is_ready"
    ELSE IF "generate_response" \notin ModelManagerMethods
    THEN "AttributeError: generate_response"
    ELSE IF ~(GenerateArguments \subseteq generate_response_parameters)
    THEN "TypeError: top_p"
    ELSE "none"

\* generate_cot(problem, temperature, top_p), lines 78-110, on a generator
\* built on a ModelManager of src/core/model.py, called as the demo calls it
\* after _detect_problem_type (demo.py, lines 89 and 100-107): the response
\* of generate_response is returned, or the error is logged and re-raised
\* to the caller.
OwnGenerateCot ==
    /\ pc = "detected"
    /\ app.pc = "idle"
    /\ IF OwnManagerError # "none"
       THEN /\ app' = [app EXCEPT !.pc = "error", !.problem_to_solve = problem,
                                  !.error = OwnManagerError]
            /\ mm' = mm
       ELSE \E o \in GenerateOutcomes :
            /\ mm' = [mm EXCEPT !.is_ready_calls = @ + 1, !.ready = "True",
                                !.generate_calls = @ + 1, !.outcome = o]
            /\ app' = IF o.kind = "text"
                      THEN [app EXCEPT !.pc = "parse",
                                       !.problem_to_solve = problem,
                                       !.cot_response = o.value]
                      ELSE [app EXCEPT !.pc = "error",
                                       !.problem_to_solve = problem,
                                       !.error = o.value]
    /\ UNCHANGED <<frame, log, generator, other, classified, session>>

\* Bound of the number of ModelManager objects built in one session.
MaxBuilt == 3

\* Positions of the max_length slider, app.py lines 92-99.
MaxLengthChoices == {100, 1024, 2000}

\* app.py, lines 119-121: the Initialize button is pressed with the slider at
\* some position; loading starts.
InitializeClick ==
    /\ session.pc = "idle"
    /\ ~session.model_loading
    /\ session.built < MaxBuilt
    /\ \E n \in MaxLengthChoices :
        session' = [session EXCEPT !.pc = "cleanup", !.model_loading = TRUE,
                                   !.max_length = n, !.error = "none"]
    /\ UNCHANGED <<frame, log, generator, mm, app, other, classified>>

\* Lines 126-128: an existing model manager is cleaned up; cleanup() may
\* raise.
InitializeCleanup ==
    /\ session.pc = "cleanup"
    /\ \/ session' = [session EXCEPT !.pc = "construct"]
       \/ /\ session.model_manager # 0
          /\ session' = [session EXCEPT !.pc = "except", !.error = "cleanup"]
    /\ UNCHANGED <<frame, log, generator, mm, app, other, classified>>

\* Lines 131-134: a ModelManager is built and stored, or its construction
\* raises.
InitializeModelManager ==
    /\ session.pc = "construct"
    /\ \/ session' = [session EXCEPT !.pc = "generator",
                                     !.model_manager = session.built + 1,
                                     !.built = @ + 1]
       \/ session' = [session EXCEPT !.pc = "except", !.error = "load"]
    /\ UNCHANGED <<frame, log, generator, mm, app, other, classified>>

\* Lines 137-143: a CoTGenerator on the new manager is built and stored.
InitializeGenerator ==
    /\ session.pc = "generator"
    /\ session' = [session EXCEPT
                      !.pc = "finally",
                      !.cot_generator =
                          [model_manager |-> session.model_manager,
                           max_length    |-> session.max_length]]
    /\ UNCHANGED <<frame, log, generator, mm, app, other, classified>>

\* Faulty variant: the handler clears the model manager only.
InitializeExcept_keeps_generator ==
    /\ session.pc = "except"
    /\ session' = [session EXCEPT !.pc = "finally", !.model_manager = 0]
    /\ UNCHANGED <<frame, log, generator, mm, app, other, classified>>

\* Lines 145-148: after an error both objects are cleared.
InitializeExcept ==
    /\ session.pc = "except"
    /\ session' = [session EXCEPT !.pc = "finally", !.model_manager = 0,
                                  !.cot_generator = NoGenerator]
    /\ UNCHANGED <<frame, log, generator, mm, app, other, classified>>

\* Lines 149-151: loading is over and the script is rerun.
InitializeFinally ==
    /\ session.pc = "finally"
    /\ session' = [session EXCEPT !.pc = "idle", !.model_loading = FALSE]
    /\ UNCHANGED <<frame, log, generator, mm, app, other, classified>>

\* Lines 154-160: the Unload button, shown for a ready model manager, is
\* pressed: the manager is cleaned up and both objects are cleared; when
\* cleanup() raises, the script ends and both objects stay.
UnloadClick ==
    /\ session.pc = "idle"
    /\ session.model_manager # 0
    /\ \/ session' = [session EXCEPT !.model_manager = 0,
                                     !.cot_generator = NoGenerator,
                                     !.error = "none"]
       \/ session' = [session EXCEPT !.error = "unload"]
    /\ UNCHANGED <<frame, log, generator, mm, app, other, classified>>

\* One caller that calls the generator again and again.
NextRepeated ==
    \/ ParseStepsAgain
    \/ DetectProblemTypeAgain
    \/ SkipBlankLine
    \/ NewStepLine
    \/ ContinueLine
    \/ AddLastStep
    \/ ReturnSteps
    \/ FallbackReturn

SpecRepeated == Init /\ [][NextRepeated]_vars

\* One call in which a failure may be raised inside parse_steps.
NextFailure ==
    \/ Next
    \/ ParseStepsExcept

SpecFailure == Init /\ [][NextFailure]_vars

\* One Generate request of the app.
NextApp ==
    \/ AppGenerateClick
    \/ GenIsReady
    \/ GenDetect
    \/ GenResponse
    \/ AppParse
    \/ SkipBlankLine
    \/ NewStepLine
    \/ ContinueLine
    \/ AddLastStep
    \/ ReturnSteps
    \/ FallbackReturn
    \/ AppDisplay

SpecApp == Init /\ [][NextApp]_vars

\* Two independent callers of one generator, their steps interleaved.
NextConcurrent ==
    \/ FirstCallerCall
    \/ SkipBlankLine
    \/ NewStepLine
    \/ ContinueLine
    \/ AddLastStep
    \/ ReturnSteps
    \/ FallbackReturn
    \/ OtherDetectProblemType
    \/ OtherParseStepsCall
    \/ OtherParseStep

SpecConcurrent == Init /\ [][NextConcurrent]_vars

\* The generator driven with the repository's own ModelManager.
NextOwnManager ==
    \/ DetectProblemType
    \/ OwnGenerateCot

SpecOwnManager == Init /\ [][NextOwnManager]_vars

\* The sidebar of the app: Initialize and Unload, pressed again and again.
NextSession ==
    \/ InitializeClick
    \/ InitializeCleanup
    \/ InitializeModelManager
    \/ InitializeGenerator
    \/ InitializeExcept
    \/ InitializeFinally
    \/ UnloadClick

SpecSession == Init /\ [][NextSession]_vars

TypeOK ==
    /\ pc \in {"idle", "detected", "scan", "check", "done", "fallback_done",
              "classified"}
    /\ detected \in {"none", "math", "logic", "riddle", "general"}
    /\ li \in 1..(Len(lines) + 1)
    /\ step_number >= 1
    /\ fallback \in BOOLEAN

-----------------------------------------------------------------------------
(* Vocabulary of the properties.                                           *)

Categories == {"math", "logic", "riddle", "general"}

\* The step built from an ordinal, a content and a kind.
StepOf(n, content, kind) ==
    [step_number |-> Str(n), content |-> content, type |-> kind]

\* The trimmed non-blank lines of the response being parsed, in order.
NonBlankLines ==
    SelectSeq([i \in 1..Len(lines) |-> Strip(lines[i])], LAMBDA l : l # "")

\* The sentences of a text: the non-empty trimmed pieces between runs of
\* terminators, in order.
SentencesOf(text) ==
    LET pieces == re_split(text)
    IN  SelectSeq([i \in 1..Len(pieces) |-> Strip(pieces[i])], LAMBDA c : c # "")

\* The value of a decimal numeral; -1 for a string that is not one.
RECURSIVE IntOf(_)
IntOf(s) ==
    IF s = "" \/ \E i \in 1..Len(s) : At(s, i) \notin DIGITS THEN -1
    ELSE LET d == CHOOSE v \in 0..9 : At("0123456789", v + 1) = At(s, Len(s))
         IN  IF Len(s) = 1 THEN d ELSE 10 * IntOf(SubSeq(s, 1, Len(s) - 1)) + d

\* The step kinds in priority order, each with its keyword family.
KindFamilies ==
    << [kind |-> "calculation", words |-> calculation_words],
       [kind |-> "conclusion",  words |-> conclusion_words],
       [kind |-> "assumption",  words |-> assumption_words],
       [kind |-> "analysis",    words |-> analysis_words] >>

\* The first kind in priority order with a keyword in the lower-cased
\* content; reasoning when there is none.
FirstKind(content) ==
    LET low  == Lower(content)
        hits == {k \in 1..Len(KindFamilies) : AnyIn(low, KindFamilies[k].words)}
    IN  IF hits = {} THEN "reasoning"
        ELSE KindFamilies[CHOOSE k \in hits : \A h \in hits : k <= h].kind

-----------------------------------------------------------------------------
(* Properties.                                                             *)

\* C1: for every input that is not empty or whitespace-only, parse_steps
\* returns at least one step.
NonEmptyInputYieldsStep ==
    (pc = "done" /\ Strip(cot_response) # "") => Len(result) >= 1

\* C2: when the line scan and the sentence fallback both yield zero steps
\* (stated here for inputs that are not whitespace-only), parse_steps
\* returns exactly one step: ordinal 1, kind reasoning, content the entire
\* trimmed input.
AbsoluteFallbackSingleStep ==
    (/\ pc = "done"
     /\ fallback
     /\ _fallback_parsing(cot_response) = <<>>
     /\ Strip(cot_response) # "")
    => result = <<StepOf(1, Strip(cot_response), "reasoning")>>

\* C3: an input with no line breaks made of several sentences, each at
\* least 11 characters long after trimming, yields one step per sentence,
\* in order; scenario B yields 3 steps, the third of kind conclusion.
SentenceFallbackOneStepPerSentence ==
    pc = "done" =>
        LET sentences == SentencesOf(cot_response)
        IN  /\ (/\ ~Contains(cot_response, "\n")
                /\ Len(sentences) >= 2
                /\ \A i \in 1..Len(sentences) : Len(sentences[i]) >= 11)
               => /\ Len(result) = Len(sentences)
                  /\ \A i \in 1..Len(sentences) : result[i].content = sentences[i]
            /\ cot_response = ScenarioB
               => Len(result) = 3 /\ result[3].type = "conclusion"

\* C4: _detect_problem_type returns math whenever the lower-cased input
\* contains a math trigger, whatever other triggers it contains.
MathTakesPrecedence ==
    (pc = "detected" /\ AnyIn(Lower(problem), math_keywords))
    => detected = "math"

MathAndLogicTriggersDetected ==
    /\ pc = "detected"
    /\ Contains(Lower(problem), "mph")
    /\ Contains(Lower(problem), "if")
    /\ detected = "math"

\* C5: _detect_problem_type returns logic for an input with a logic trigger
\* and no math trigger, and riddle for an input with a riddle trigger and
\* neither a math nor a logic trigger.
LogicThenRiddle ==
    pc = "detected" =>
        LET low == Lower(problem)
        IN  /\ (AnyIn(low, logic_keywords) /\ ~AnyIn(low, math_keywords))
               => detected = "logic"
            /\ (/\ AnyIn(low, riddle_keywords)
                /\ ~AnyIn(low, math_keywords)
                /\ ~AnyIn(low, logic_keywords))
               => detected = "riddle"

LogicAndRiddleTriggersDetected ==
    /\ pc = "detected"
    /\ Contains(Lower(problem), "if")
    /\ Contains(Lower(problem), "keys")
    /\ ~AnyIn(Lower(problem), math_keywords)
    /\ detected = "logic"

\* C6: _detect_problem_type always returns a category, and returns general
\* exactly for the inputs, the empty string among them, whose lower-cased
\* text contains no math, logic or riddle trigger.
GeneralIffNoTrigger ==
    pc = "detected" =>
        LET low == Lower(problem)
        IN  /\ detected \in Categories
            /\ detected = "general"
               <=> ~(\/ AnyIn(low, math_keywords)
                     \/ AnyIn(low, logic_keywords)
                     \/ AnyIn(low, riddle_keywords))
            /\ problem = "" => detected = "general"

TriggerFreeDetected ==
    /\ pc = "detected"
    /\ problem = "Hello "
    /\ detected = "general"

\* The trimmed non-blank lines among the first n lines of the response.
NonBlankUpTo(n) ==
    SelectSeq([i \in 1..n |-> Strip(lines[i])], LAMBDA l : l # "")

\* C7: in the line scan, a non-blank marker line read with a non-empty
\* accumulator closes the accumulated text as one step and leaves an
\* accumulator holding exactly that line; so n non-blank lines that each
\* match a marker and have at least 5 characters (after trimming) yield
\* exactly n steps, the i-th with the i-th trimmed line as content, and
\* scenario A yields two steps.
MarkerLineStartsNewStep ==
    /\ pc = "scan" =>
        LET read == NonBlankUpTo(li - 1)
            n    == Len(read)
        IN  /\ (n >= 1 /\ is_new_step(read[n])) => current_step = read[n]
            /\ (/\ n >= 1
                /\ \A i \in 1..n : is_new_step(read[i]) /\ Len(read[i]) >= 5)
               => /\ Len(steps) = n - 1
                  /\ \A i \in 1..(n - 1) : steps[i].content = read[i]
    /\ pc = "done" =>
        /\ (/\ NonBlankLines # <<>>
            /\ \A i \in 1..Len(NonBlankLines) :
                is_new_step(NonBlankLines[i]) /\ Len(NonBlankLines[i]) >= 5)
           => /\ Len(result) = Len(NonBlankLines)
              /\ \A i \in 1..Len(NonBlankLines) :
                    result[i].content = NonBlankLines[i]
        /\ cot_response = ScenarioA => Len(result) = 2

TwoMarkerLinesParsed ==
    /\ pc = "done"
    /\ Len(NonBlankLines) = 2
    /\ \A i \in 1..2 : is_new_step(NonBlankLines[i]) /\ Len(NonBlankLines[i]) >= 5
    /\ Len(result) = 2

\* C8: _classify_step returns the first kind, in the order calculation,
\* conclusion, assumption, analysis, whose keyword family has a member in
\* the lower-cased content, and reasoning when no family has one; content
\* with "+" and "answer" is calculation, content with "answer" and no
\* calculation keyword is conclusion.
ClassifyFirstMatch ==
    \A i \in 1..Len(steps) :
        LET low == Lower(steps[i].content)
        IN  /\ steps[i].type = FirstKind(steps[i].content)
            /\ (Contains(low, "+") /\ Contains(low, "answer"))
               => steps[i].type = "calculation"
            /\ (Contains(low, "answer") /\ ~AnyIn(low, calculation_words))
               => steps[i].type = "conclusion"

PlusAndAnswerClassified ==
    /\ pc = "done"
    /\ \E i \in 1..Len(result) :
        /\ Contains(result[i].content, "+")
        /\ Contains(result[i].content, "answer")
        /\ result[i].type = "calculation"

\* C9: every step emitted or returned by parse_steps has a content that is
\* non-empty, has no leading or trailing whitespace and has at least 5
\* characters; shorter fragments are never emitted.
StepContentTrimmedAndLong ==
    \A i \in 1..Len(steps) :
        /\ steps[i].content # ""
        /\ Strip(steps[i].content) = steps[i].content
        /\ Len(steps[i].content) >= 5

ShortFragmentDropped ==
    /\ pc = "done"
    /\ Len(NonBlankLines) >= 2
    /\ NonBlankLines[1] = "Hi"
    /\ is_new_step(NonBlankLines[2])
    /\ Len(result) >= 1
    /\ ~Contains(result[1].content, "Hi")

\* C10: in every sequence parse_steps returns, on either path, the step
\* ordinals are numerals of value at least 1, strictly increasing in
\* output order.
OrdinalsIncrease ==
    pc = "done" =>
        /\ \A i \in 1..Len(result) :
            /\ IntOf(result[i].step_number) >= 1
            /\ Str(IntOf(result[i].step_number)) = result[i].step_number
        /\ \A i \in 1..(Len(result) - 1) :
            IntOf(result[i].step_number) < IntOf(result[i + 1].step_number)

FallbackOrdinalsReturned ==
    /\ pc = "done"
    /\ fallback
    /\ Len(result) >= 2

-----------------------------------------------------------------------------
(* Properties of the order of the steps.                                   *)

\* The strings of seq joined by sep.
RECURSIVE Join(_, _)
Join(seq, sep) ==
    IF seq = <<>> THEN ""
    ELSE IF Len(seq) = 1 THEN seq[1]
    ELSE seq[1] \o sep \o Join(Tail(seq), sep)

\* The contents of a sequence of steps.
ContentsOf(ss) == [i \in 1..Len(ss) |-> ss[i].content]

\* The fragments of a sequence nb of trimmed non-blank lines: a fragment
\* starts at the first line and at every later marker line, and is the
\* lines up to the next start joined by single spaces.  acc is the fragment
\* being built when line i is read.
RECURSIVE FragmentsFrom(_, _, _)
FragmentsFrom(nb, i, acc) ==
    IF i > Len(nb) THEN (IF acc = "" THEN <<>> ELSE <<acc>>)
    ELSE IF acc # "" /\ is_new_step(nb[i])
         THEN <<acc>> \o FragmentsFrom(nb, i + 1, nb[i])
    ELSE FragmentsFrom(nb, i + 1, IF acc = "" THEN nb[i] ELSE acc \o " " \o nb[i])

Fragments == FragmentsFrom(NonBlankLines, 1, "")

\* Whether the strings of seq, from the i-th on, occur in text one after
\* the other, without overlap, at or after position from.
RECURSIVE OccurInOrder(_, _, _, _)
OccurInOrder(seq, i, text, from) ==
    IF i > Len(seq) THEN TRUE
    ELSE LET n    == Len(seq[i])
             hits == {p \in from..(Len(text) - n + 1) :
                         SubSeq(text, p, p + n - 1) = seq[i]}
         IN  /\ hits # {}
             /\ OccurInOrder(seq, i + 1, text,
                             (CHOOSE p \in hits : \A h \in hits : p <= h) + n)

\* C11: parse_steps neither reorders nor deduplicates: the contents of the
\* returned steps occur one after the other in the input (after the line
\* scan: in its trimmed non-blank lines joined by single spaces; after the
\* sentence fallback: in the input itself), and when no fragment is shorter
\* than 5 characters the contents joined by single spaces are the trimmed
\* non-blank lines joined by single spaces.
StepsKeepInputOrder ==
    pc = "done" =>
        /\ OccurInOrder(ContentsOf(result), 1,
                        IF fallback THEN cot_response
                        ELSE Join(NonBlankLines, " "), 1)
        /\ (\A f \in 1..Len(Fragments) : Len(Fragments[f]) >= 5)
           => /\ Join(ContentsOf(result), " ") = Join(NonBlankLines, " ")
              /\ Len(result) = Len(Fragments)

IdenticalFragmentsReturned ==
    /\ pc = "done"
    /\ Len(result) = 2
    /\ result[1].content = result[2].content
    /\ Len(NonBlankLines) = 2

-----------------------------------------------------------------------------
(* Properties of repeated calls.                                           *)

\* C12: parse_steps is deterministic and history-independent: two calls
\* with the same text on the same generator return the same sequence of
\* steps, whatever calls happened before or in between.
SameTextSameSteps ==
    \A i, j \in 1..Len(log) : log[i][1] = log[j][1] => log[i][2] = log[j][2]

SameTextParsedTwice ==
    /\ Len(log) = 3
    /\ log[1][1] = log[3][1]
    /\ log[1][1] # log[2][1]
    /\ log[1][2] = log[3][2]
    /\ Len(log[1][2]) = 2
    /\ detected # "none"

-----------------------------------------------------------------------------
(* Properties of the failure handler of parse_steps.                       *)

\* C13: a failure raised inside parse_steps during the line scan or the
\* sentence fallback is not propagated: the call returns exactly one step
\* with ordinal 1, kind reasoning and the trimmed input as content.
FailureAbsorbedAsOneStep ==
    (raised /\ pc = "done") =>
        /\ Len(result) = 1
        /\ result[1].step_number = "1"
        /\ result[1].type = "reasoning"
        /\ result[1].content = Strip(cot_response)

FailureAfterTwoSteps ==
    /\ raised
    /\ pc = "done"
    /\ Len(steps) = 2
    /\ Len(result) = 1
    /\ result[1].content = Strip(cot_response)

-----------------------------------------------------------------------------
(* Properties of a Generate request of the app.                            *)

\* C14: when generate_response fails, generate_cot raises that same error and
\* returns no text, and the app does not call parse_steps for the request; a
\* generate_cot call that returns, returns the full text of
\* generate_response unchanged.
GenerationFailurePropagates ==
    /\ app.pc = "error" =>
        /\ app.cot_response = ""
        /\ pc \notin {"scan", "check", "done"}
        /\ log = <<>>
        /\ mm.generate_calls = 1 =>
            /\ mm.outcome.kind = "error"
            /\ app.error = mm.outcome.value
    /\ app.pc \in {"parse", "parsing", "shown"} =>
        /\ mm.outcome.kind = "text"
        /\ app.cot_response = mm.outcome.value
        /\ app.error = "none"
        /\ app.pc # "parse" => cot_response = mm.outcome.value

GenerationFailed ==
    /\ app.pc = "error"
    /\ mm.generate_calls = 1
    /\ mm.outcome.kind = "error"
    /\ app.error = "RuntimeError: CUDA out of memory"
    /\ detected = "math"

\* C15: _detect_problem_type and parse_steps have no side effects: every
\* step of either call (a step that changes the call's own locals) leaves
\* the fields of the CoTGenerator unchanged and makes no call to the model
\* manager.
DetectAndParseLeaveGeneratorAlone ==
    [][(frame' # frame) =>
          /\ generator' = generator
          /\ mm' = mm
          /\ generator = NewGenerator]_vars

DetectedAndParsedAfterGeneration ==
    /\ app.pc = "shown"
    /\ detected = "math"
    /\ Len(result) = 2
    /\ mm.generate_calls = 1
    /\ mm.is_ready_calls = 1
    /\ generator = NewGenerator

-----------------------------------------------------------------------------
(* Properties of concurrent calls.                                         *)

\* The value parse_steps(t) returns when its call runs alone, from the first
\* line to the return.
RECURSIVE RunFrame(_)
RunFrame(f) == IF f.pc \in {"scan", "check"} THEN RunFrame(StepFrame(f)) ELSE f

ParseAlone(t) == RunFrame(BeginFrame(t)).result

\* C16: concurrent calls of parse_steps and _detect_problem_type on one
\* generator by independent callers, interleaved in any way, each return
\* what the same call returns when run alone.
ConcurrentCallsAsAlone ==
    /\ pc = "done" => result = ParseAlone(cot_response)
    /\ other.pc = "done" => other.result = ParseAlone(other.cot_response)
    /\ pc = "detected" => detected = _detect_problem_type(problem)
    /\ other.pc = "detected" => other.detected = _detect_problem_type(other.problem)

InterleavedCallsReturned ==
    /\ pc = "done"
    /\ other.pc = "done"
    /\ other.overlap
    /\ Len(result) = 2
    /\ other.result # <<>>
    /\ other.result # result

-----------------------------------------------------------------------------
(* Properties of the example problems.                                     *)

\* C17: for every example problem of ExampleProblems, _detect_problem_type
\* applied to its question returns the type of its list: math for the
\* entries of math_problems, logic for those of logic_problems, riddle for
\* those of riddles.
ExamplesDetectedAsListed ==
    pc = "detected" =>
        /\ (\E i \in 1..Len(math_problems) : problem = math_problems[i])
           => detected = "math"
        /\ (\E i \in 1..Len(logic_problems) : problem = logic_problems[i])
           => detected = "logic"
        /\ (\E i \in 1..Len(riddles) : problem = riddles[i])
           => detected = "riddle"

-----------------------------------------------------------------------------
(* Properties of the sentence fallback.                                    *)

\* C18: the steps the sentence fallback emits are numbered sequentially:
\* the k candidates that survive the length filter carry the ordinals
\* 1, 2, ..., k in order, also when shorter candidates before or between
\* them were discarded.
FallbackOrdinalsSequential ==
    pc = "fallback_done" =>
        \A i \in 1..Len(result) : result[i].step_number = Str(i)

\* The positions where a maximal terminator-free stretch of text starts, and
\* the stretch that starts at such a position.
StretchStarts(text) ==
    {a \in 1..Len(text) :
        /\ At(text, a) \notin TERMINATORS
        /\ a = 1 \/ At(text, a - 1) \in TERMINATORS}

StretchAt(text, a) ==
    LET b == CHOOSE e \in a..Len(text) :
                /\ \A k \in a..e : At(text, k) \notin TERMINATORS
                /\ e = Len(text) \/ At(text, e + 1) \in TERMINATORS
    IN  SubSeq(text, a, b)

\* The starts of the stretches that are at least 11 characters long once
\* trimmed.
Survivors(text) ==
    {a \in StretchStarts(text) : Len(Strip(StretchAt(text, a))) >= 11}

\* C19: _fallback_parsing splits its input at every maximal run of '.', '!'
\* and '?', trims each candidate, discards every candidate shorter than 11
\* characters and returns one step per remaining candidate, in original
\* order, each classified by _classify_step.
FallbackStepsAreLongSentences ==
    pc = "fallback_done" =>
        LET kept == Survivors(cot_response)
        IN  /\ Len(result) = Cardinality(kept)
            /\ \A a \in kept :
                LET i == Cardinality({b \in kept : b <= a})
                IN  /\ result[i].content = Strip(StretchAt(cot_response, a))
                    /\ result[i].type = _classify_step(result[i].content)

TerminatorRunsSplitOnce ==
    /\ pc = "fallback_done"
    /\ cot_response = "Hm?! The sum is 2+2... Therefore the answer is 4!"
    /\ Len(result) = 2
    /\ result[1].content = "The sum is 2+2"
    /\ result[2].type = "conclusion"

-----------------------------------------------------------------------------
(* Properties of blank lines.                                              *)

\* The lines of a text that are not blank, as they stand in the text.
LinesKept(text) ==
    SelectSeq(Split(text, "\n"), LAMBDA l : Strip(l) # "")

\* C20: blank lines are discarded by parse_steps: two texts that differ only
\* by inserted or removed empty or whitespace-only lines yield the same
\* sequence of steps (ordinals, contents, kinds).
BlankLinesDoNotMatter ==
    \A i, j \in 1..Len(log) :
        LinesKept(log[i][1]) = LinesKept(log[j][1]) => log[i][2] = log[j][2]

-----------------------------------------------------------------------------
(* Properties of the content of the steps.                                 *)

\* C21: lines merged into one step are joined by a single space, not by a
\* newline: the content of every step parse_steps returns is single-line
\* and contains no line-break character.
StepContentSingleLine ==
    pc = "done" =>
        \A i \in 1..Len(result) :
            /\ ~Contains(result[i].content, "\n")
            /\ ~Contains(result[i].content, "\r")

-----------------------------------------------------------------------------
(* Properties of the line scan.                                            *)

\* The number of marker lines among the trimmed lines read, the first one
\* not counted.
MarkersAfterFirst(read) ==
    Cardinality({k \in 2..Len(read) : is_new_step(read[k])})

\* C22: the accumulator of the line scan is empty only before the first
\* non-blank line; every non-blank line leaves it non-empty and it is never
\* emptied again before end of input.  A step is closed only by a marker
\* line read with a non-empty accumulator or by end of input, so a marker on
\* the first non-blank line closes nothing and the scan emits at most
\* 1 + (number of marker lines after the first non-blank line) steps.
ScanIdleOnlyBeforeFirstLine ==
    /\ pc = "scan" =>
        LET read == NonBlankUpTo(li - 1)
        IN  /\ (current_step = "") <=> (read = <<>>)
            /\ Len(steps) <= MarkersAfterFirst(read)
    /\ (pc = "check" \/ (pc = "done" /\ ~fallback /\ ~raised)) =>
        /\ Len(steps) <= 1 + MarkersAfterFirst(NonBlankLines)
        /\ NonBlankLines = <<>> => steps = <<>>

MarkerAfterPlainLineClosedOneStep ==
    /\ pc = "check"
    /\ cot_response = "Suppose it rains\nFirst, we examine the data\n\nIt was happy"
    /\ Len(steps) = 2
    /\ MarkersAfterFirst(NonBlankLines) = 1
    /\ steps[2].content = "First, we examine the data It was happy"

\* Marker phrases as they stand in a lower-cased line, and the lines that
\* hold one of them after their first character.
MarkerPhrases == <<"so ", "so,", "then ", "then,", "i need to ">>

MarkerInMidLine(text_line) ==
    LET low == Lower(text_line)
    IN  \E m \in 1..Len(MarkerPhrases) :
            Contains(SubSeq(low, 2, Len(low)), MarkerPhrases[m])

\* C23: a non-blank line counts as a new-step marker whenever a marker
\* pattern matches anywhere inside it, case-insensitively, not only at its
\* start: read with a non-empty accumulator, a line such as "the total is
\* 5, so we stop" closes the current step and starts a new one.
MidLineMarkerStartsNewStep ==
    /\ pc = "scan" =>
        LET read == NonBlankUpTo(li - 1)
            n    == Len(read)
        IN  (n >= 2 /\ MarkerInMidLine(read[n])) => current_step = read[n]
    /\ (/\ pc = "done"
        /\ ~fallback
        /\ Len(NonBlankLines) = 2
        /\ MarkerInMidLine(NonBlankLines[2])
        /\ Len(NonBlankLines[1]) >= 5
        /\ Len(NonBlankLines[2]) >= 5)
       => /\ Len(result) = 2
          /\ result[1].content = NonBlankLines[1]
          /\ result[2].content = NonBlankLines[2]

UpperCaseMidLineMarkerParsed ==
    /\ pc = "done"
    /\ cot_response = "It was happy\n\nTHE TOTAL IS 5, SO WE STOP"
    /\ Len(result) = 2
    /\ result[2].content = "THE TOTAL IS 5, SO WE STOP"

\* C24: on the line-scan path the ordinals of the returned steps are
\* exactly 1, 2, ..., n with no gaps: the step counter advances only when a
\* closed fragment is emitted, so a fragment dropped by the 5-character
\* filter consumes no ordinal.
LineScanOrdinalsHaveNoGaps ==
    /\ pc \in {"scan", "check"} =>
        /\ \A i \in 1..Len(steps) : steps[i].step_number = Str(i)
        /\ pc = "scan" => step_number = Len(steps) + 1
    /\ (pc = "done" /\ ~fallback /\ ~raised) =>
        \A i \in 1..Len(result) : result[i].step_number = Str(i)

StepAfterDroppedFragmentReturned ==
    /\ pc = "done"
    /\ ~fallback
    /\ Len(Fragments) = 3
    /\ Len(Fragments[1]) < 5
    /\ Len(result) = 2
    /\ result[1].step_number = "1"
    /\ result[2].step_number = "2"

\* The fragments the line scan closes that pass the 5-character filter.
LongFragments == SelectSeq(Fragments, LAMBDA f : Len(f) >= 5)

-----------------------------------------------------------------------------
(* Properties of empty input.                                              *)

\* C26: for an empty or whitespace-only input string parse_steps returns the
\* empty sequence: no step is emitted and no error is raised.
BlankInputYieldsNoStep ==
    (pc = "done" /\ Strip(cot_response) = "") =>
        /\ result = <<>>
        /\ steps = <<>>
        /\ ~raised

WhitespaceOnlyInputReturned ==
    /\ pc = "done"
    /\ cot_response = "  \n\t "
    /\ fallback
    /\ result = <<>>
    /\ log = << <<cot_response, <<>> >> >>

-----------------------------------------------------------------------------
(* Properties of the keyword tables of _classify_step.                     *)

\* C27: every keyword of the step-kind tables is effective for its own
\* kind: no keyword listed for conclusion, assumption or analysis contains a
\* keyword of a higher-priority family, so a content that is just the
\* keyword is classified as the keyword's kind (in particular "reason" and
\* "identify" are classified analysis).
EveryKeywordEffective ==
    pc = "classified" =>
        /\ (\E k \in 1..Len(conclusion_words) :
                classified.content = conclusion_words[k])
           => classified.type = "conclusion"
        /\ (\E k \in 1..Len(assumption_words) :
                classified.content = assumption_words[k])
           => classified.type = "assumption"
        /\ (\E k \in 1..Len(analysis_words) :
                classified.content = analysis_words[k])
           => classified.type = "analysis"

-----------------------------------------------------------------------------
(* Properties of the readiness check of generate_cot.                      *)

\* C28: generate_cot never calls generate_response while the model manager
\* reports not ready: when is_ready() is false it raises an error without
\* calling generate_response, and generate_response is called at most once
\* per generate_cot call, only after the readiness check passed.
NoGenerationUnlessReady ==
    /\ mm.generate_calls <= 1
    /\ mm.generate_calls = 1 => (mm.ready = "True" /\ mm.is_ready_calls = 1)
    /\ app.pc \in {"detect", "generate_response"} =>
        (mm.ready = "True" /\ mm.generate_calls = 0)
    /\ mm.ready = "False" =>
        /\ app.pc = "error"
        /\ app.error = NotReadyError
        /\ app.cot_response = ""
        /\ mm.generate_calls = 0

NotReadyRaisedWithoutGeneration ==
    /\ mm.ready = "False"
    /\ mm.is_ready_calls = 1
    /\ mm.generate_calls = 0
    /\ app.pc = "error"
    /\ app.error = NotReadyError
    /\ app.problem_to_solve = ScenarioC

-----------------------------------------------------------------------------
(* Properties of the generator on the repository's ModelManager.           *)

\* C29: driven with the repository's own ModelManager, generate_cot(problem,
\* temperature, top_p) completes without error and returns the text that
\* ModelManager.generate_response produced: the ModelManager offers every
\* operation and parameter the generator invokes on it.
OwnManagerGenerates ==
    (pc = "detected" /\ app.pc # "idle") =>
        /\ app.pc = "parse"
        /\ app.error = "none"
        /\ mm.outcome.kind = "text"
        /\ app.cot_response = mm.outcome.value

-----------------------------------------------------------------------------
(* Properties of the app's session state.                                  *)

\* C30: after every completed Initialize or Unload action, model_manager is
\* None exactly when cot_generator is None, and model_loading is False: a
\* successful Initialize sets both objects, a failed Initialize clears both,
\* Unload clears both, and no sequence of these actions leaves a
\* cot_generator without a model_manager.
SessionObjectsSetTogether ==
    /\ session.pc = "idle" =>
        /\ (session.model_manager = 0) <=> (session.cot_generator = NoGenerator)
        /\ ~session.model_loading
    /\ session.cot_generator # NoGenerator => session.model_manager # 0

FailedInitializeClearedLoadedModel ==
    /\ session.pc = "idle"
    /\ session.built = 1
    /\ session.error = "cleanup"
    /\ session.model_manager = 0
    /\ session.cot_generator = NoGenerator
    /\ ~session.model_loading

====
